---- MODULE Spec2Model ----
(***************************************************************************)
(* Model of src/app.py: a Streamlit script that summarizes a document and  *)
(* reads the summary aloud.  Streamlit re-executes the whole script (the   *)
(* module body and main()) on every widget interaction; st.session_state   *)
(* and the widget values survive between executions.  One action of this   *)
(* model is one user interaction together with the complete script run it  *)
(* triggers.                                                               *)
(*                                                                         *)
(* A Python str is modelled as the sequence of its maximal runs of equal   *)
(* characters, each run a pair <<character, count>> (so a 1025-character   *)
(* document is a handful of runs).  The representation is canonical:       *)
(* adjacent runs hold different characters and every count is positive,    *)
(* hence two strs are equal exactly when their run sequences are equal.    *)
(* Characters are "a" and "b" (non-whitespace), "sp" (blank) and "nl"      *)
(* (newline).                                                              *)
(***************************************************************************)
EXTENDS Integers, Sequences, FiniteSets, TLC

VARIABLES
    summarizer,            \* result of load_summarizer(): "pipeline" or "None"
    session_state,         \* st.session_state: summary, audio_bytes, max_length, min_length
    max_length,            \* value of the "Summary Maximum Length" slider
    min_length,            \* value of the "Summary Minimum Length" slider (before repair)
    audio_lang,            \* value of the "Audio Language" selectbox
    input_method,          \* value of the input method radio
    text_area,             \* content of the text area (Text Input)
    uploaded_file,         \* file held by the uploader (File Upload), or None
    clicked,               \* the button whose click triggered the last script run
    backend_call,          \* arguments of the summarizer call of the last run, or None
    tts_call,              \* arguments of the text_to_speech call of the last run, or None
    messages,              \* st.info / st.warning / st.error / st.success of the last run
    uncaught,              \* exception that escaped main() in the last run, or "none"
    metrics,               \* the statistics row rendered by the last run, or None
    summary_source_words   \* history: len(input_text.split()) of the run that stored the summary

vars == << summarizer, session_state, max_length, min_length, audio_lang,
           input_method, text_area, uploaded_file, clicked, backend_call,
           tts_call, messages, uncaught, metrics, summary_source_words >>

None == [none |-> TRUE]

(***************************************************************************)
(* Program constants                                                       *)
(***************************************************************************)
MinChars == 50
MaxChars == 1024
DefaultMaxLength == 150
DefaultMinLength == 50
MaxLengthLo == 50
MaxLengthHi == 300
MinLengthLo == 20
MinLengthHi == 100
SliderStep == 10
RepairGap == 10

(***************************************************************************)
(* Bounds of the explored inputs                                           *)
(***************************************************************************)
MaxPad == 1      \* most whitespace characters before / after a document body
MaxParts == 1    \* most pages / paragraphs of an uploaded file

(***************************************************************************)
(* Python str operations on run sequences                                  *)
(***************************************************************************)
IsSpace(c) == c \in {"sp", "nl"}

Rep(c, n) == IF n <= 0 THEN << >> ELSE << <<c, n>> >>

\* s + t
Cat(s, t) ==
    IF s = << >> THEN t
    ELSE IF t = << >> THEN s
    ELSE LET a == s[Len(s)]
             b == t[1]
         IN  IF a[1] = b[1]
             THEN SubSeq(s, 1, Len(s) - 1) \o << <<a[1], a[2] + b[2]>> >> \o Tail(t)
             ELSE s \o t

\* len(t)
RECURSIVE StrLen(_)
StrLen(t) == IF t = << >> THEN 0 ELSE t[1][2] + StrLen(Tail(t))

\* t[:k]
RECURSIVE Slice(_, _)
Slice(t, k) ==
    IF t = << >> \/ k <= 0 THEN << >>
    ELSE IF t[1][2] >= k THEN << <<t[1][1], k>> >>
    ELSE << t[1] >> \o Slice(Tail(t), k - t[1][2])

RECURSIVE LStrip(_)
LStrip(t) ==
    IF t = << >> THEN << >>
    ELSE IF IsSpace(t[1][1]) THEN LStrip(Tail(t))
    ELSE t

RECURSIVE RStrip(_)
RStrip(t) ==
    IF t = << >> THEN << >>
    ELSE IF IsSpace(t[Len(t)][1]) THEN RStrip(SubSeq(t, 1, Len(t) - 1))
    ELSE t

\* t.strip()
Strip(t) == RStrip(LStrip(t))

\* len(t.split()): the number of maximal blocks of non-whitespace characters
SplitLen(t) ==
    Cardinality({ i \in 1..Len(t) :
                    /\ ~IsSpace(t[i][1])
                    /\ (i = 1 \/ IsSpace(t[i - 1][1])) })

\* truth value of a str
Truthy(t) == t # << >>

(***************************************************************************)
(* Explored inputs                                                         *)
(***************************************************************************)
RECURSIVE MoreWords(_)
MoreWords(k) == IF k <= 0 THEN << >> ELSE << <<"sp", 1>>, <<"b", 1>> >> \o MoreWords(k - 1)

\* a text of n characters holding w words (one word when n is too small for w)
Body(w, n) ==
    IF n > 2 * (w - 1)
    THEN Cat(Rep("a", n - 2 * (w - 1)), MoreWords(w - 1))
    ELSE Rep("a", n)

Doc(lead, w, n, trail) == Cat(Cat(Rep("sp", lead), Body(w, n)), Rep("sp", trail))

BodyLens == {0, MinChars - 10, MinChars, MinChars + 1, MaxChars, MaxChars + 1}
\* the explored bodies of odd length hold two words, the others one
WordsOf(n) == 1 + (n % 2)

Texts == { Doc(l, WordsOf(n), n, t) : l \in 0..MaxPad, n \in BodyLens, t \in 0..MaxPad }
\* one document the generate branch accepts
SampleTexts == { Doc(0, 2, MinChars + 1, 0) }

PartTexts == { Body(1, MinChars + 1), Body(2, MaxChars) }

RECURSIVE SeqsUpTo(_, _)
SeqsUpTo(S, n) ==
    IF n = 0 THEN { << >> }
    ELSE LET shorter == SeqsUpTo(S, n - 1)
         IN  shorter \cup { Append(q, x) : q \in shorter, x \in S }

FileTypes == { "application/pdf",
               "application/vnd.openxmlformats-officedocument.wordprocessingml.document",
               "text/plain" }

\* an uploaded file: its MIME type, whether its reader can read it, and the text
\* of its pages (PDF), paragraphs (DOCX) or content (TXT)
Files ==
    { [type |-> ty, readable |-> FALSE, parts |-> << >>] : ty \in FileTypes }
    \cup { [type |-> ty, readable |-> TRUE, parts |-> ps] :
             ty \in FileTypes, ps \in SeqsUpTo(PartTexts, MaxParts) }

\* what the backend may return as summary_text, or None when the call raises
SummaryTexts == { Body(1, 3), Body(2, 5) }
BackendOutcomes == { None } \cup { [str |-> s] : s \in SummaryTexts }
\* gTTS succeeds or raises
TtsOutcomes == { "ok", "raise" }

Languages == { "en", "ur", "hi" }
InputMethods == { "Text Input", "File Upload" }

SliderOptions(lo, hi) == { v \in lo..hi : (v - lo) % SliderStep = 0 }
MaxLengthOptions == SliderOptions(MaxLengthLo, MaxLengthHi)
MinLengthOptions == SliderOptions(MinLengthLo, MinLengthHi)
\* the slider positions Spec explores: a valid pair and pairs needing repair
ExploredMaxLengths == { MaxLengthLo, DefaultMaxLength }
ExploredMinLengths == { DefaultMinLength, MinLengthHi }

(***************************************************************************)
(* Functions of the script                                                 *)
(***************************************************************************)
RECURSIVE JoinPages(_)
JoinPages(ps) == IF ps = << >> THEN << >> ELSE Cat(ps[1], JoinPages(Tail(ps)))

RECURSIVE JoinParagraphs(_)
JoinParagraphs(ps) ==
    IF ps = << >> THEN << >>
    ELSE Cat(Cat(ps[1], Rep("nl", 1)), JoinParagraphs(Tail(ps)))

\* extract_text_from_pdf
extract_text_from_pdf(file) ==
    IF file.readable
    THEN [text |-> JoinPages(file.parts), raised |-> FALSE, messages |-> {}]
    ELSE [text |-> << >>, raised |-> FALSE, messages |-> {"error: extracting text from PDF"}]

\* extract_text_from_docx
extract_text_from_docx(file) ==
    IF file.readable
    THEN [text |-> JoinParagraphs(file.parts), raised |-> FALSE, messages |-> {}]
    ELSE [text |-> << >>, raised |-> FALSE, messages |-> {"error: extracting text from DOCX"}]

\* uploaded_file.read().decode('utf-8'), outside any try
read_decode(file) ==
    IF file.readable
    THEN [text |-> JoinPages(file.parts), raised |-> FALSE, messages |-> {}]
    ELSE [text |-> << >>, raised |-> TRUE, messages |-> {}]

\* the input column up to the generate button: input_text, whether an
\* exception escaped, and the messages shown
ReadInput(method, txt, file) ==
    IF method = "Text Input" THEN [text |-> txt, raised |-> FALSE, messages |-> {}]
    ELSE IF file = None THEN [text |-> << >>, raised |-> FALSE, messages |-> {}]
    ELSE LET r == IF file.type = "application/pdf" THEN extract_text_from_pdf(file)
                  ELSE IF file.type = "application/vnd.openxmlformats-officedocument.wordprocessingml.document"
                       THEN extract_text_from_docx(file)
                       ELSE read_decode(file)
         IN  IF r.raised THEN r
             ELSE [r EXCEPT !.messages =
                      @ \cup (IF Truthy(r.text) THEN {"success: file read"}
                              ELSE {"error: could not extract text"})]

\* text_to_speech: the bytes gTTS makes of (text, lang), or None
text_to_speech(text, lang, tts) ==
    IF tts = "ok" THEN [text |-> text, lang |-> lang] ELSE None

\* a repair that forgets the gap
EnforceNoGap(mn, mx) ==
    IF mn >= mx
    THEN [min_length |-> mx, max_length |-> mx, warned |-> TRUE]
    ELSE [min_length |-> mn, max_length |-> mx, warned |-> FALSE]

\* the sidebar's repair of the slider pair
Enforce(mn, mx) ==
    IF mn >= mx
    THEN [min_length |-> mx - RepairGap, max_length |-> mx, warned |-> TRUE]
    ELSE [min_length |-> mn, max_length |-> mx, warned |-> FALSE]

\* a check of the raw length instead of the trimmed one
AcceptsUntrimmed(text) == Truthy(text) /\ StrLen(text) > MinChars

\* the condition of the generate branch
Accepts(text) == Truthy(text) /\ StrLen(Strip(text)) > MinChars

\* a truncation that is one character short
TruncateShort(text) == IF StrLen(text) > MaxChars THEN Slice(text, MaxChars - 1) ELSE text

\* processed_text
Truncate(text) == IF StrLen(text) > MaxChars THEN Slice(text, MaxChars) ELSE text

\* an except branch that also discards the stored result
ExceptBranchDiscards(ss, call, msgs) ==
    [session |-> [ss EXCEPT !.summary = None, !.audio_bytes = None],
     backend_call |-> call, tts_call |-> None,
     messages |-> msgs \cup {"error: generating summary"}, stored |-> FALSE]

\* the except branch of the generate block
ExceptBranch(ss, call, msgs) ==
    [session |-> ss, backend_call |-> call, tts_call |-> None,
     messages |-> msgs \cup {"error: generating summary"}, stored |-> FALSE]

\* st.session_state.summary = summary
StoreSummary(ss, summary) == [ss EXCEPT !.summary = [str |-> summary]]

\* if audio_bytes: st.session_state.audio_bytes = audio_bytes
StoreAudio(ss, audio) == IF audio # None THEN [ss EXCEPT !.audio_bytes = audio] ELSE ss

\* the body of `if st.button("Generate Summary")`
Generate(ss, text, lens, lang, gen, tts) ==
    IF Accepts(text)
    THEN LET processed == Truncate(text)
             info == IF StrLen(text) > MaxChars THEN {"info: long text"} ELSE {}
             call == [text |-> processed, max_length |-> lens.max_length,
                      min_length |-> lens.min_length]
         IN  IF gen = None THEN ExceptBranch(ss, call, info)
             ELSE LET summary == gen.str
                      audio == text_to_speech(summary, lang, tts)
                  IN  [session |-> StoreAudio(StoreSummary(ss, summary), audio),
                       backend_call |-> call,
                       tts_call |-> [text |-> summary, lang |-> lang],
                       messages |-> info
                           \cup (IF audio = None THEN {"error: generating audio"} ELSE {})
                           \cup {"success: summary and audio generated"},
                       stored |-> TRUE]
    ELSE [session |-> ss, backend_call |-> None, tts_call |-> None,
          messages |-> {"warning: at least 50 characters"}, stored |-> FALSE]

\* the "Reduction" figure, in tenths of a percent as "{:.1f}" shows it
Reduction(original_words, summary_words) ==
    (2000 * (original_words - summary_words) + original_words) \div (2 * original_words)

\* the output column down to the clear button
Output(ss, text) ==
    IF ss.summary # None /\ Truthy(ss.summary.str)
    THEN IF Truthy(text)
         THEN LET original_words == SplitLen(text)
                  summary_words == SplitLen(ss.summary.str)
              IN  IF original_words = 0
                  THEN [metrics |-> [original_words |-> original_words,
                                     summary_words |-> summary_words],
                        uncaught |-> "ZeroDivisionError", clear_button |-> FALSE]
                  ELSE [metrics |-> [original_words |-> original_words,
                                     summary_words |-> summary_words,
                                     reduction |-> Reduction(original_words, summary_words)],
                        uncaught |-> "none", clear_button |-> TRUE]
         ELSE [metrics |-> None, uncaught |-> "none", clear_button |-> TRUE]
    ELSE [metrics |-> None, uncaught |-> "none", clear_button |-> FALSE]

\* a clear that forgets the audio
ClearSummaryOnly(ss) == [ss EXCEPT !.summary = None]

\* the clear button's handler
ClearResults(ss) == [ss EXCEPT !.summary = None, !.audio_bytes = None]

\* one execution of main() with the model loaded
Main(ss, mn, mx, lang, method, txt, file, click, gen, tts) ==
    LET lens == Enforce(mn, mx)
        side == IF lens.warned THEN {"warning: min must be less than max"} ELSE {}
        inp  == ReadInput(method, txt, file)
    IN  IF inp.raised
        THEN [session |-> ss, backend_call |-> None, tts_call |-> None,
              messages |-> side \cup inp.messages, uncaught |-> "UnicodeDecodeError",
              metrics |-> None, stored |-> FALSE, source_words |-> 0]
        ELSE LET g == IF click = "generate"
                      THEN Generate(ss, inp.text, lens, lang, gen, tts)
                      ELSE [session |-> ss, backend_call |-> None, tts_call |-> None,
                            messages |-> {}, stored |-> FALSE]
                 out == Output(g.session, inp.text)
             IN  [session |-> g.session, backend_call |-> g.backend_call,
                  tts_call |-> g.tts_call,
                  messages |-> side \cup inp.messages \cup g.messages,
                  uncaught |-> out.uncaught, metrics |-> out.metrics,
                  stored |-> g.stored, source_words |-> SplitLen(inp.text)]

(***************************************************************************)
(* State machine                                                           *)
(***************************************************************************)
InitialSession ==
    [summary |-> None, audio_bytes |-> None,
     max_length |-> DefaultMaxLength, min_length |-> DefaultMinLength]

Init ==
    /\ summarizer \in {"pipeline", "None"}
    /\ session_state = InitialSession
    /\ max_length = session_state.max_length
    /\ min_length = session_state.min_length
    /\ audio_lang = "en"
    /\ input_method = "Text Input"
    /\ text_area = << >>
    /\ uploaded_file = None
    /\ clicked = "none"
    /\ backend_call = None
    /\ tts_call = None
    /\ messages = IF summarizer = "None" THEN {"error: model could not be loaded"} ELSE {}
    /\ uncaught = "none"
    /\ metrics = None
    /\ summary_source_words = 0

\* the script run triggered by an interaction that leaves the widgets as primed
Rerun(click, gen, tts) ==
    LET base == IF click = "clear" THEN ClearResults(session_state) ELSE session_state
    IN  \E r \in { Main(base, min_length', max_length', audio_lang', input_method',
                        text_area', uploaded_file',
                        IF click = "clear" THEN "none" ELSE click, gen, tts) } :
        /\ session_state' = r.session
        /\ clicked' = click
        /\ backend_call' = r.backend_call
        /\ tts_call' = r.tts_call
        /\ messages' = r.messages
        /\ uncaught' = r.uncaught
        /\ metrics' = r.metrics
        /\ summary_source_words' =
              IF r.stored THEN r.source_words
              ELSE IF click = "clear" THEN 0
              ELSE summary_source_words
        /\ UNCHANGED summarizer

\* main() returns before rendering any widget when the model is not loaded
Rendered == summarizer # "None"
\* the generate button is rendered unless reading the input raised
GenerateButton == Rendered /\ uncaught # "UnicodeDecodeError"
\* the clear button is rendered when the output column reached it
ClearButton ==
    /\ Rendered
    /\ uncaught = "none"
    /\ session_state.summary # None

SetMaxLength(S) ==
    /\ Rendered
    /\ \E v \in S :
        /\ v # max_length
        /\ max_length' = v
        /\ UNCHANGED << min_length, audio_lang, input_method, text_area, uploaded_file >>
        /\ Rerun("none", None, "ok")

SetMinLength(S) ==
    /\ Rendered
    /\ \E v \in S :
        /\ v # min_length
        /\ min_length' = v
        /\ UNCHANGED << max_length, audio_lang, input_method, text_area, uploaded_file >>
        /\ Rerun("none", None, "ok")

SetAudioLang ==
    /\ Rendered
    /\ \E l \in Languages :
        /\ l # audio_lang
        /\ audio_lang' = l
        /\ UNCHANGED << max_length, min_length, input_method, text_area, uploaded_file >>
        /\ Rerun("none", None, "ok")

\* the widget of the other input method is no longer rendered and loses its value
SetInputMethod ==
    /\ Rendered
    /\ \E m \in InputMethods :
        /\ m # input_method
        /\ input_method' = m
        /\ text_area' = << >>
        /\ uploaded_file' = None
        /\ UNCHANGED << max_length, min_length, audio_lang >>
        /\ Rerun("none", None, "ok")

EnterText(T) ==
    /\ Rendered
    /\ input_method = "Text Input"
    /\ \E t \in T :
        /\ t # text_area
        /\ text_area' = t
        /\ UNCHANGED << max_length, min_length, audio_lang, input_method, uploaded_file >>
        /\ Rerun("none", None, "ok")

UploadFile ==
    /\ Rendered
    /\ input_method = "File Upload"
    /\ \E f \in Files \cup {None} :
        /\ f # uploaded_file
        /\ uploaded_file' = f
        /\ UNCHANGED << max_length, min_length, audio_lang, input_method, text_area >>
        /\ Rerun("none", None, "ok")

ClickGenerate ==
    /\ GenerateButton
    /\ UNCHANGED << max_length, min_length, audio_lang, input_method, text_area, uploaded_file >>
    /\ \E gen \in BackendOutcomes, tts \in TtsOutcomes : Rerun("generate", gen, tts)

ClickClear ==
    /\ ClearButton
    /\ UNCHANGED << max_length, min_length, audio_lang, input_method, text_area, uploaded_file >>
    /\ Rerun("clear", None, "ok")

Next ==
    \/ SetMaxLength(ExploredMaxLengths)
    \/ SetMinLength(ExploredMinLengths)
    \/ SetAudioLang
    \/ SetInputMethod
    \/ EnterText(Texts)
    \/ UploadFile
    \/ ClickGenerate
    \/ ClickClear

Spec == Init /\ [][Next]_vars

\* every slider position, on one accepted document
NextLengths ==
    \/ SetMaxLength(MaxLengthOptions)
    \/ SetMinLength(MinLengthOptions)
    \/ EnterText(SampleTexts)
    \/ ClickGenerate
    \/ ClickClear

SpecLengths == Init /\ [][NextLengths]_vars

(***************************************************************************)
(* Properties                                                              *)
(***************************************************************************)
\* input_text as the last script run read it
InputText == ReadInput(input_method, text_area, uploaded_file).text

\* the last run rendered the summary box
SummaryDisplayed ==
    /\ summarizer # "None"
    /\ uncaught # "UnicodeDecodeError"
    /\ session_state.summary # None

C2_AudioMatchesSummary ==
    session_state.audio_bytes # None =>
        /\ session_state.summary # None
        /\ session_state.audio_bytes.text = session_state.summary.str

\* C3: when the backend call fails during a generate action, the stored
\* summary and audio are what they were before the action, the failure is
\* reported and no exception leaves main.
C3_BackendFailureKeepsSession ==
    [][(clicked' = "generate" /\ "error: generating summary" \in messages') =>
          /\ session_state' = session_state
          /\ uncaught' = "none"
          /\ tts_call' = None]_vars

C3_FailureAfterEarlierResult ==
    /\ clicked = "generate"
    /\ "error: generating summary" \in messages
    /\ session_state.summary # None
    /\ session_state.audio_bytes # None

\* C4: a generate action on input whose trimmed length is at most 50 is
\* rejected with a warning, calls neither the backend nor the audio synthesis
\* and leaves the session unchanged; a trimmed length of 51 or more reaches
\* the backend.
C4_ShortInputRejected ==
    [][clicked' = "generate" =>
          IF StrLen(Strip(InputText')) <= MinChars
          THEN /\ backend_call' = None
               /\ tts_call' = None
               /\ session_state' = session_state
               /\ "warning: at least 50 characters" \in messages'
          ELSE /\ backend_call' # None
               /\ "warning: at least 50 characters" \notin messages']_vars

C4_PaddedInputRejected ==
    /\ clicked = "generate"
    /\ StrLen(Strip(InputText)) = MinChars
    /\ StrLen(InputText) > MinChars
    /\ backend_call = None
    /\ "warning: at least 50 characters" \in messages

\* C5: for every slider pair, the repaired pair satisfies 0 < min < max, it is
\* the pair the backend is called with, repairing it again changes nothing,
\* and a pair with min < max is left as it is.
C5_RepairedLengths ==
    LET once == Enforce(min_length, max_length)
        twice == Enforce(once.min_length, once.max_length)
    IN  /\ 0 < once.min_length
        /\ once.min_length < once.max_length
        /\ twice.min_length = once.min_length
        /\ twice.max_length = once.max_length
        /\ ~twice.warned
        /\ min_length < max_length =>
              (once.min_length = min_length /\ once.max_length = max_length)
        /\ backend_call # None =>
              /\ backend_call.min_length = once.min_length
              /\ backend_call.max_length = once.max_length

C5_RepairedPairReachesBackend ==
    /\ backend_call # None
    /\ min_length >= max_length
    /\ backend_call.min_length = max_length - RepairGap

\* C6: where a summary is displayed and the input text holds no word, the
\* statistics are computed without a division by zero.
C6_NoDivisionByZero ==
    (SummaryDisplayed /\ SplitLen(InputText) = 0) => uncaught # "ZeroDivisionError"

\* C7: the clear action leaves the session summary and audio None and the
\* session's max_length and min_length entries as they were.
C7_ClearDiscardsResult ==
    [][clicked' = "clear" =>
          /\ session_state'.summary = None
          /\ session_state'.audio_bytes = None
          /\ session_state'.max_length = session_state.max_length
          /\ session_state'.min_length = session_state.min_length
          /\ metrics' = None]_vars

C7_ClearedAfterGenerate ==
    /\ clicked = "clear"
    /\ session_state = InitialSession
    /\ summary_source_words = 0

\* C8: a failure to read an uploaded document of any kind does not leave
\* main as an exception: the input text is empty, an error is shown and the
\* backend is not called.
C8_ExtractionFailureCaught ==
    (input_method = "File Upload" /\ uploaded_file # None /\ ~uploaded_file.readable) =>
        /\ uncaught = "none"
        /\ InputText = << >>
        /\ messages \cap {"error: extracting text from PDF",
                          "error: extracting text from DOCX",
                          "error: could not extract text"} # {}
        /\ backend_call = None

\* C9: the text handed to the backend is the trimmed input text, the one
\* whose length was checked against the 50-character threshold.
C9_BackendGetsTrimmedText ==
    backend_call # None => backend_call.text = Truncate(Strip(InputText))

\* C10: the original word count shown with a stored summary is that of the
\* document whose generate action produced the summary.
C10_StatsFromSourceDocument ==
    (SummaryDisplayed /\ uncaught = "none" /\ metrics # None) =>
        metrics.original_words = summary_source_words

====
